---- MODULE Spec2Model ----
(***************************************************************************)
(* Model of halotools/sim_manager/halo_catalog.py: OverhauledHaloCatalog.   *)
(*                                                                         *)
(* One instance is followed from the call of its constructor through the   *)
(* calls made on it afterwards (the halo_table property and                *)
(* store_halocat_in_cache).  The constructor is cut at its statements so   *)
(* that their order is observable; every statement is forced by pc, none   *)
(* can be skipped.  The instance's attribute dictionary is the function    *)
(* attrs (hasattr(self, k) is k \in DOMAIN attrs).  Collaborators that are  *)
(* not part of the class (the path helpers of manipulate_cache_log,        *)
(* Table.read, h5py.File) either return or raise, chosen nondeterministic- *)
(* ally.                                                                   *)
(***************************************************************************)
EXTENDS Integers, Sequences, FiniteSets, TLC

VARIABLES
    h5pyAvail,   \* input: whether "import h5py" succeeds
    preload,     \* input: the preload_halo_table argument
    kwargs,      \* input: the **kwargs of the constructor
    fileAttrs,   \* input: f.attrs of the HDF5 file, key -> raw stored value
    pc,          \* position in the constructor, then "done" or "failed"
    exc,         \* exception that left the constructor ("none" if none)
    attrs,       \* the instance's attributes, name -> value
    calls,       \* calls made to the path helpers of manipulate_cache_log
    reads,       \* calls of Table.read, in order
    handle,      \* the h5py.File object of _bind_metadata
    opens,       \* number of times h5py.File was opened
    todo,        \* keys of f.attrs the loop of _bind_metadata has not visited
    trace,       \* constructor steps begun, in order
    returned,    \* values returned by halo_table accesses, in order
    nCalls,      \* calls made on the constructed instance
    lastOp       \* the last call made on the constructed instance

vars == <<h5pyAvail, preload, kwargs, fileAttrs, pc, exc, attrs, calls, reads,
          handle, opens, todo, trace, returned, nCalls, lastOp>>

inputs == <<h5pyAvail, preload, kwargs, fileAttrs>>

(***************************************************************************)
(* Bounds.                                                                 *)
(***************************************************************************)
MaxCalls == 3      \* calls made on an instance after its construction
NumPaths == 2      \* distinct file names the helpers / the caller may name

(***************************************************************************)
(* Values.  Every Python value is a record [kind, v].                      *)
(***************************************************************************)
Str(n)   == [kind |-> "str",   v |-> n]
Float(n) == [kind |-> "float", v |-> n]
TableObj(n) == [kind |-> "Table", v |-> n]
CacheObj == [kind |-> "HaloTableCache", v |-> 0]
None     == [kind |-> "None",  v |-> 0]
Raised   == [kind |-> "raise", v |-> 0]

Paths == {Str(p) : p \in 1..NumPaths}

\* Redshifts are counted in units of 1e-5; NotANumber is a string that is
\* not the text of a number.
NotANumber == Str(-1)
RawRedshifts == {Str(50000), Float(50000), Str(100004), Float(100004),
                 NotANumber}

\* The value of preload_halo_table: the booleans, and a truthy non-boolean.
PreloadValues == {"False", "True", "1"}

KwargKeys == {"fname", "simname"}
KwargValues(k) == IF k = "fname" THEN Paths ELSE {Str(9)}
KwargSets ==
    UNION { {kw \in [D -> Paths \cup {Str(9)}] :
                 \A k \in D : kw[k] \in KwargValues(k)} : D \in SUBSET KwargKeys }

\* Keys a file's attributes may carry: the redshift, an ordinary key, and
\* keys that are also names of the instance (two data attributes and the
\* halo_table property).  Keys that name a method of the class are not
\* drawn: they replace the method on the instance, they do not change what
\* the method does.
MetaKeys == {"redshift", "Lbox", "_halo_table", "fname_halo_table", "halo_table"}
RawValues(k) ==
    CASE k = "redshift" -> RawRedshifts
      [] k = "Lbox" -> {Float(25000000)}
      [] k = "fname_halo_table" -> {Str(7)}
      [] OTHER -> {Str(8)}
AllRaw == UNION {RawValues(k) : k \in MetaKeys}
FileAttrSets ==
    UNION { {fa \in [D -> AllRaw] : \A k \in D : fa[k] \in RawValues(k)}
            : D \in SUBSET MetaKeys }

Put(a, k, val) == [x \in (DOMAIN a) \cup {k} |-> IF x = k THEN val ELSE a[x]]
Without(f, k)  == [x \in (DOMAIN f) \ {k} |-> f[x]]
Empty == [x \in {} |-> None]

(***************************************************************************)
(* get_redshift_string (log_entry.py) and float().                         *)
(***************************************************************************)
CanParse(raw) == raw # NotANumber
\* '{0:.4f}'.format(float(z)): the text of z with four decimals.
get_redshift_string(raw) == Str(((raw.v + 5) \div 10) * 10)
float(s) == Float(s.v)

(***************************************************************************)
(* __init__                                                                *)
(***************************************************************************)
Init ==
    /\ h5pyAvail \in BOOLEAN
    /\ preload \in PreloadValues
    /\ kwargs \in KwargSets
    /\ fileAttrs \in FileAttrSets
    /\ pc = "new"
    /\ exc = "none"
    /\ attrs = Empty
    /\ calls = <<>>
    /\ reads = <<>>
    /\ handle = "none"
    /\ opens = 0
    /\ todo = {}
    /\ trace = <<>>
    /\ returned = <<>>
    /\ nCalls = 0
    /\ lastOp = [op |-> "none", ret |-> None]

Raise(e) == pc' = "failed" /\ exc' = e

\* Variant: the failed import is only warned about, as at module level.
CheckH5py_WarnOnly ==
    /\ pc = "new"
    /\ trace' = Append(trace, "import_h5py")
    /\ pc' = "checked"
    /\ UNCHANGED <<inputs, exc, attrs, calls, reads, handle, opens, todo,
                   returned, nCalls, lastOp>>

\* try: import h5py / except ImportError: raise HalotoolsError
CheckH5py ==
    /\ pc = "new"
    /\ trace' = Append(trace, "import_h5py")
    /\ IF h5pyAvail
          THEN pc' = "checked" /\ exc' = exc
          ELSE Raise("HalotoolsError")
    /\ UNCHANGED <<inputs, attrs, calls, reads, handle, opens, todo,
                   returned, nCalls, lastOp>>

\* self.halo_table_cache = HaloTableCache()
CreateCache ==
    /\ pc = "checked"
    /\ trace' = Append(trace, "HaloTableCache")
    /\ attrs' = Put(attrs, "halo_table_cache", CacheObj)
    /\ pc' = "cached"
    /\ UNCHANGED <<inputs, exc, calls, reads, handle, opens, todo,
                   returned, nCalls, lastOp>>

\* Variant: "del kwargs['fname']" is missing.
HelperCall_KeepFname(kw) ==
    IF "fname" \in DOMAIN kw
       THEN [helper |-> "return_halo_table_fname_after_verification",
             pos |-> <<kw["fname"]>>, kw |-> kw]
       ELSE [helper |-> "return_halo_table_fname_from_simname_inputs",
             pos |-> <<>>, kw |-> kw]

\* The helper call _retrieve_fname_halo_table makes for the keyword
\* arguments kw: its name, positional arguments and keyword arguments.
HelperCall(kw) ==
    IF "fname" \in DOMAIN kw
       THEN [helper |-> "return_halo_table_fname_after_verification",
             pos |-> <<kw["fname"]>>, kw |-> Without(kw, "fname")]
       ELSE [helper |-> "return_halo_table_fname_from_simname_inputs",
             pos |-> <<>>, kw |-> kw]

\* self.fname_halo_table = self._retrieve_fname_halo_table(**kwargs)
ResolvePath ==
    /\ pc = "cached"
    /\ trace' = Append(trace, "retrieve_fname")
    /\ \/ \E p \in Paths :
             /\ calls' = Append(calls, [call |-> HelperCall(kwargs), ret |-> p])
             /\ attrs' = Put(attrs, "fname_halo_table", p)
             /\ pc' = "resolved" /\ exc' = exc
       \/ /\ calls' = Append(calls, [call |-> HelperCall(kwargs), ret |-> Raised])
          /\ Raise("HelperError")
          /\ attrs' = attrs
    /\ UNCHANGED <<inputs, reads, handle, opens, todo, returned, nCalls, lastOp>>


\* Variant: "if preload_halo_table:".
IsTrue_Truthy(p) == p # "False"

\* if preload_halo_table is True
IsTrue(p) == p = "True"

NumRead(rs) == Cardinality({i \in DOMAIN rs : rs[i].ok})

\* Variant: a failed read is swallowed and None is cached.
load_halo_table_CacheFailure(ok) ==
    /\ reads' = Append(reads, [path |-> attrs["fname_halo_table"],
                               ok |-> ok, at |-> pc])
    /\ attrs' = Put(attrs, "_halo_table",
                    IF ok THEN TableObj(NumRead(reads) + 1) ELSE None)

\* _load_halo_table: self._halo_table = Table.read(self.fname_halo_table,
\* path='data').  Table.read returns a new Table object or raises.
load_halo_table(ok) ==
    /\ reads' = Append(reads, [path |-> attrs["fname_halo_table"],
                               ok |-> ok, at |-> pc])
    /\ attrs' = IF ok THEN Put(attrs, "_halo_table", TableObj(NumRead(reads) + 1))
                      ELSE attrs

\* if preload_halo_table is True: self._load_halo_table()
EagerLoad ==
    /\ pc = "resolved"
    /\ IF IsTrue(preload)
          THEN /\ trace' = Append(trace, "load_halo_table")
               /\ \E ok \in BOOLEAN :
                     /\ load_halo_table(ok)
                     /\ IF ok THEN pc' = "bind" /\ exc' = exc
                              ELSE Raise("IOError")
          ELSE /\ pc' = "bind"
               /\ UNCHANGED <<trace, reads, attrs, exc>>
    /\ UNCHANGED <<inputs, calls, handle, opens, todo, returned, nCalls, lastOp>>

(***************************************************************************)
(* _bind_metadata                                                          *)
(***************************************************************************)
\* Variant: the redshift is left out of the keys that are bound.
AttrKeys_NoRedshift(fa) == (DOMAIN fa) \ {"redshift"}

\* f.attrs.keys()
AttrKeys(fa) == DOMAIN fa

\* f = h5py.File(self.fname_halo_table)
OpenFile ==
    /\ pc = "bind"
    /\ trace' = Append(trace, "bind_metadata")
    /\ \/ /\ handle' = "open"
          /\ opens' = opens + 1
          /\ todo' = AttrKeys(fileAttrs)
          /\ pc' = "binding" /\ exc' = exc
       \/ /\ Raise("IOError")
          /\ UNCHANGED <<handle, opens, todo>>
    /\ UNCHANGED <<inputs, attrs, calls, reads, returned, nCalls, lastOp>>

\* The class attributes setattr cannot assign: halo_table is a property
\* without a setter.
ReadOnly == {"halo_table"}

\* Variant: every key is bound to its raw stored value.
BoundValue_Raw(k, raw) == raw

\* The value the loop body binds to attr_key.
BoundValue(k, raw) ==
    IF k = "redshift" THEN float(get_redshift_string(raw)) ELSE raw

\* Whether the loop body raises for attr_key.
BindRaises(k, raw) ==
    \/ k = "redshift" /\ ~CanParse(raw)
    \/ k \in ReadOnly

\* One iteration of "for attr_key in f.attrs.keys()"; the order of the keys
\* is h5py's and is left open.
BindKey ==
    /\ pc = "binding"
    /\ todo # {}
    /\ \E k \in todo :
          /\ todo' = todo \ {k}
          /\ IF BindRaises(k, fileAttrs[k])
                THEN /\ Raise(IF k \in ReadOnly THEN "AttributeError" ELSE "ValueError")
                     /\ attrs' = attrs
                ELSE /\ attrs' = Put(attrs, k, BoundValue(k, fileAttrs[k]))
                     /\ UNCHANGED <<pc, exc>>
    /\ UNCHANGED <<inputs, calls, reads, handle, opens, trace, returned,
                   nCalls, lastOp>>

\* Variant: f.close() is missing.
CloseFile_Leak ==
    /\ pc = "binding"
    /\ todo = {}
    /\ pc' = "done"
    /\ UNCHANGED <<inputs, exc, attrs, calls, reads, handle, opens, todo, trace,
                   returned, nCalls, lastOp>>

\* f.close(), after the loop; __init__ returns.
CloseFile ==
    /\ pc = "binding"
    /\ todo = {}
    /\ handle' = "closed"
    /\ pc' = "done"
    /\ UNCHANGED <<inputs, exc, attrs, calls, reads, opens, todo, trace,
                   returned, nCalls, lastOp>>

(***************************************************************************)
(* Calls on the constructed instance.                                      *)
(***************************************************************************)
\* if not hasattr(self, '_halo_table')
NeedsLoad(a) == "_halo_table" \notin DOMAIN a

\* The halo_table property.
halo_table ==
    /\ pc = "done"
    /\ nCalls < MaxCalls
    /\ nCalls' = nCalls + 1
    /\ IF NeedsLoad(attrs)
          THEN \E ok \in BOOLEAN :
                  /\ load_halo_table(ok)
                  /\ IF ok
                        THEN /\ returned' = Append(returned, attrs'["_halo_table"])
                             /\ lastOp' = [op |-> "halo_table",
                                           ret |-> attrs'["_halo_table"]]
                        ELSE /\ returned' = returned
                             /\ lastOp' = [op |-> "halo_table", ret |-> Raised]
          ELSE /\ returned' = Append(returned, attrs["_halo_table"])
               /\ lastOp' = [op |-> "halo_table", ret |-> attrs["_halo_table"]]
               /\ UNCHANGED <<attrs, reads>>
    /\ UNCHANGED <<inputs, pc, exc, calls, handle, opens, todo, trace>>

\* Variant: the method records the file name it is given.
StoreEffect_SetFname(a, fname, overwrite, neglect, storePtcl, kw) ==
    Put(a, "fname_halo_table", fname)

\* What store_halocat_in_cache does to the instance's attributes: pass.
StoreEffect(a, fname, overwrite, neglect, storePtcl, kw) == a

store_halocat_in_cache ==
    /\ pc = "done"
    /\ nCalls < MaxCalls
    /\ nCalls' = nCalls + 1
    /\ \E fname \in Paths, overwrite \in BOOLEAN, neglect \in BOOLEAN,
          storePtcl \in BOOLEAN, kw \in KwargSets :
          attrs' = StoreEffect(attrs, fname, overwrite, neglect, storePtcl, kw)
    /\ lastOp' = [op |-> "store_halocat_in_cache", ret |-> None]
    /\ UNCHANGED <<inputs, pc, exc, calls, reads, handle, opens, todo, trace,
                   returned>>

Next ==
    \/ CheckH5py
    \/ CreateCache
    \/ ResolvePath
    \/ EagerLoad
    \/ OpenFile
    \/ BindKey
    \/ CloseFile
    \/ halo_table
    \/ store_halocat_in_cache

Spec == Init /\ [][Next]_vars


(***************************************************************************)
(* Properties.                                                             *)
(***************************************************************************)
AfterVerification == "return_halo_table_fname_after_verification"
FromSimname == "return_halo_table_fname_from_simname_inputs"
IsPrefix(s, t) == Len(s) <= Len(t) /\ \A i \in 1..Len(s) : s[i] = t[i]
InitReads == {i \in DOMAIN reads : reads[i].at = "resolved"}
GoodReads == {i \in DOMAIN reads : reads[i].ok}
StepOf(op) == nCalls' = nCalls + 1 /\ lastOp'.op = op

\* C1: after a construction with an explicit fname and preload_halo_table
\* left False, and before any call on the instance, Table.read has not been
\* called, _halo_table is unset, and the one file access was the open of
\* _bind_metadata; any read of the table is made by a halo_table access.
C1_LazyConstructionReadsNothing ==
    ("fname" \in DOMAIN kwargs /\ preload = "False" /\ pc = "done") =>
        /\ nCalls = 0 => (reads = <<>> /\ "_halo_table" \notin DOMAIN attrs)
        /\ opens = 1
        /\ \A i \in DOMAIN reads : reads[i].at = "done"

\* C2: on a constructed instance every halo_table access returns the same
\* Table object and the table is read at most once: at construction when
\* preload_halo_table is True (and never again), otherwise at the first
\* access that returns.
C2_SameTableReadOnce ==
    pc = "done" =>
        /\ \A i, j \in DOMAIN returned : returned[i] = returned[j]
        /\ \A i \in DOMAIN returned : returned[i].kind = "Table"
        /\ Cardinality(GoodReads) <= 1
        /\ preload = "True" => (Len(reads) = 1 /\ GoodReads = InitReads)
        /\ (preload # "True" /\ returned # <<>>) =>
               (Cardinality(GoodReads) = 1 /\ InitReads = {})

\* C3: without h5py the constructor raises HalotoolsError at its first step:
\* no cache object, no helper call, no read, no open, no attribute.
C3_NoH5pyFailsFirst ==
    (~h5pyAvail /\ pc # "new") =>
        /\ pc = "failed" /\ exc = "HalotoolsError"
        /\ trace = <<"import_h5py">>
        /\ attrs = Empty
        /\ calls = <<>> /\ reads = <<>> /\ opens = 0 /\ handle = "none"
C3_Witness == ~h5pyAvail /\ pc = "failed" /\ kwargs # Empty

\* C4: on a constructed instance the attribute redshift is
\* float(get_redshift_string(stored value)), a number and never a stored
\* string, and every other metadata key holds its raw stored value.
C4_RedshiftNumericOthersRaw ==
    pc = "done" =>
        \A k \in DOMAIN fileAttrs :
            IF k = "redshift"
               THEN /\ attrs[k].kind = "float"
                    /\ attrs[k] = float(get_redshift_string(fileAttrs[k]))
                    /\ fileAttrs[k].kind = "str" => attrs[k] # fileAttrs[k]
               ELSE attrs[k] = fileAttrs[k]
C4_Witness ==
    /\ pc = "done"
    /\ {"redshift", "Lbox"} \subseteq DOMAIN fileAttrs
    /\ fileAttrs["redshift"] = Str(100004)
    /\ attrs["redshift"] = Float(100000)

C6_OneHelperCall ==
    /\ Len(calls) = (IF pc \in {"new", "checked", "cached"} THEN 0
                        ELSE IF h5pyAvail THEN 1 ELSE 0)
    /\ \A i \in DOMAIN calls :
          LET c == calls[i].call IN
          /\ "preload_halo_table" \notin DOMAIN c.kw
          /\ IF "fname" \in DOMAIN kwargs
                THEN /\ c.helper = AfterVerification
                     /\ c.pos = <<kwargs["fname"]>>
                     /\ DOMAIN c.kw = (DOMAIN kwargs) \ {"fname"}
                     /\ \A k \in DOMAIN c.kw : c.kw[k] = kwargs[k]
                ELSE /\ c.helper = FromSimname
                     /\ c.pos = <<>>
                     /\ c.kw = kwargs
    /\ pc = "resolved" => attrs["fname_halo_table"] = calls[1].ret
C6_Witness ==
    /\ pc = "resolved"
    /\ DOMAIN kwargs = {"fname", "simname"}
    /\ calls[1].call.helper = AfterVerification

\* C7: on a constructed instance every key of the file's metadata is an
\* attribute of the instance, and binding added no other name: before any
\* call the attributes are those set before binding plus the metadata keys.
C7_AttributesAreMetadataKeys ==
    pc = "done" =>
        /\ DOMAIN fileAttrs \subseteq DOMAIN attrs
        /\ nCalls = 0 =>
              DOMAIN attrs =
                 {"halo_table_cache", "fname_halo_table"}
                 \cup (IF preload = "True" THEN {"_halo_table"} ELSE {})
                 \cup DOMAIN fileAttrs
C7_Witness ==
    /\ pc = "done"
    /\ DOMAIN fileAttrs = {"redshift", "Lbox", "_halo_table", "fname_halo_table"}

\* C8: the constructor's steps run in the order h5py check, HaloTableCache,
\* path resolution, eager load (exactly when preload_halo_table is True),
\* metadata binding; no file is read or opened before the path is set; and
\* once the instance is constructed no call binds metadata again or changes
\* a metadata attribute.
ExpectedOrder ==
    <<"import_h5py", "HaloTableCache", "retrieve_fname">>
    \o (IF preload = "True" THEN <<"load_halo_table">> ELSE <<>>)
    \o <<"bind_metadata">>
C8_Order ==
    /\ IsPrefix(trace, ExpectedOrder)
    /\ pc \in {"binding", "done"} => trace = ExpectedOrder
    /\ (reads # <<>> \/ opens > 0) =>
          (Len(trace) >= 3 /\ "fname_halo_table" \in DOMAIN attrs)
    /\ opens > 0 => (preload = "True" <=> InitReads # {})
C8_ConstructionOrder ==
    /\ []C8_Order
    /\ [][pc = "done" =>
             /\ trace' = trace /\ opens' = opens
             /\ \A k \in DOMAIN fileAttrs : attrs'[k] = attrs[k]]_vars
C8_Witness ==
    /\ pc = "done" /\ preload = "True"
    /\ lastOp.op = "halo_table" /\ nCalls >= 2
    /\ fileAttrs # Empty

\* C9: a collaborator's failure ends the constructor at that step, with no
\* retry: after a failed path resolution nothing is read or opened, after a
\* failed eager load no metadata is bound; a halo_table access whose load
\* fails leaves _halo_table unset, and an access with _halo_table unset
\* calls Table.read.
C9_State ==
    /\ pc = "failed" => exc # "none"
    /\ pc # "failed" => exc = "none"
    /\ Len(calls) <= 1 /\ Cardinality(InitReads) <= 1 /\ opens <= 1
    /\ exc = "HelperError" =>
          /\ trace = <<"import_h5py", "HaloTableCache", "retrieve_fname">>
          /\ reads = <<>> /\ opens = 0
          /\ DOMAIN attrs = {"halo_table_cache"}
    /\ (pc = "failed" /\ reads # <<>> /\ ~reads[Len(reads)].ok) =>
          /\ Len(reads) = 1 /\ exc = "IOError"
          /\ trace[Len(trace)] = "load_halo_table"
          /\ opens = 0 /\ handle = "none"
          /\ DOMAIN attrs = {"halo_table_cache", "fname_halo_table"}
    /\ (exc = "IOError" /\ trace[Len(trace)] = "bind_metadata") =>
          /\ opens = 0 /\ handle = "none"
          /\ DOMAIN attrs \subseteq
                {"halo_table_cache", "fname_halo_table", "_halo_table"}
    /\ exc \in {"ValueError", "AttributeError"} => (handle = "open" /\ opens = 1)
    /\ lastOp.ret = Raised => "_halo_table" \notin DOMAIN attrs
C9_NoRecovery ==
    /\ []C9_State
    /\ [][StepOf("halo_table") =>
             /\ "_halo_table" \notin DOMAIN attrs => Len(reads') = Len(reads) + 1
             /\ lastOp'.ret = Raised => attrs' = attrs]_vars
C9_Witness ==
    /\ lastOp = [op |-> "halo_table", ret |-> Raised]
    /\ Len(reads) >= 2
    /\ ~reads[Len(reads)].ok /\ ~reads[Len(reads) - 1].ok

\* C10: _bind_metadata opens the file once per construction and closes it
\* before it returns, after every key has been bound; a constructed
\* instance holds no open handle, whatever is called on it afterwards.
C10_HandleClosed ==
    /\ opens <= 1
    /\ pc \in {"binding", "done"} => opens = 1
    /\ pc = "done" => handle = "closed"
    /\ handle = "closed" =>
          (pc = "done" /\ todo = {} /\ DOMAIN fileAttrs \subseteq DOMAIN attrs)
    /\ handle = "open" => pc \in {"binding", "failed"}
C10_Witness ==
    /\ pc = "done" /\ handle = "closed"
    /\ nCalls >= 2
    /\ Cardinality(DOMAIN fileAttrs) >= 2

====
